---- MODULE Spec2Model ----
(***************************************************************************)
(* The file appender of nxlog4go (package filelog): the bounded channel    *)
(* `messages`, the writeLoop goroutine, Init/Close, and SetOption with the *)
(* `loopReset` channel.  Goroutines are interleaved at the granularity of  *)
(* their blocking points and of their unsynchronised shared accesses.      *)
(***************************************************************************)
EXTENDS Integers, Sequences, FiniteSets, TLC

\* ------------------------------------------------------------------ bounds
\* capacity of both channels (l4g.LogBufferLength), scaled down
LogBufferLength == 1
\* number of Write calls made in a run
MaxMsgs == 3
\* number of Init calls made in a run that repeats Init
MaxInits == 2
\* number of Close calls made in a run that repeats Close
MaxCloses == 2
\* number of SetOption calls made in a run
MaxSets == 2
\* number of polls Close makes before it gives up (10 in the code), scaled down
ClosePolls == 2
\* number of days the wall clock is followed
MaxDays == 3

\* ------------------------------------------------------- program constants
\* cycle: 86400 (NewAppender, nextTime, daily)
DaySeconds == 86400

\* ------------------------------------------------------------- goroutines
Producers == {"p1", "p2"}
Initers   == {"i1", "i2"}
Setters   == {"s1"}
Closers   == {"c1"}
Clients   == Producers \cup Initers \cup Setters \cup Closers

LoopName(n) == "w" \o ToString(n)
LoopIds == 1..MaxInits

\* the empty payload a receive from the closed channel yields
Nil == 0

VARIABLES
    messages,     \* fa.messages: the buffered payloads, oldest first
    msgClosed,    \* fa.messages has been closed
    loopReset,    \* fa.loopReset: number of buffered tokens
    resetClosed,  \* fa.loopReset has been closed
    mu,           \* fa.mu: "free" or the goroutine holding it
    maxsize,      \* fa.maxsize
    cycle,        \* fa.cycle
    clock,        \* fa.clock
    loopRunning,  \* fa.loopRunning
    out,          \* fa.out: the rotating file writer
    lp,           \* the writeLoop goroutines: position, bb, ok, the fa.cycle read
    pc,           \* position of every client goroutine
    wbuf,         \* Write: the formatted record a producer is sending
    ci,           \* Close: the poll counter i
    myLoop,       \* Init: the goroutine whose ready channel the caller waits on
    sres,         \* SetOption: the error returned by the last call
    enqueued,     \* history: payloads in the order the channel accepted them
    calls,        \* history: number of calls made of each operation
    initReturned, \* history: number of Init calls that have returned
    panicked,     \* a goroutine panicked: the process is gone
    now,          \* time.Now(): seconds since midnight of the first day, or FreeRunning
    rotTimer      \* writeLoop: the deadline nrt its rotTimer is armed with

vars == <<messages, msgClosed, loopReset, resetClosed, mu, maxsize, cycle, clock,
          loopRunning, out, lp, pc, wbuf, ci, myLoop, sres, enqueued, calls,
          initReturned, panicked, now, rotTimer>>

chanVars  == <<messages, msgClosed, loopReset, resetClosed>>
stateVars == <<maxsize, cycle, clock, loopRunning>>
histVars  == <<enqueued, calls, initReturned>>
localVars == <<wbuf, ci, myLoop, sres>>
timeVars  == <<now, rotTimer>>

\* --------------------------------------------------------------- the sink
\* l4g.RotateFileWriter is not part of the sources: its operations are modelled
\* from their use and from the specification (write, flush, size, rotate, close,
\* setters).  Every payload counts one unit of size.
outRotate(o) ==
    [o EXCEPT !.size = 0, !.unflushed = 0, !.rotations = @ + 1]

outWrite(o, bb) ==
    IF bb = Nil THEN o
    ELSE LET w == [o EXCEPT !.written = Append(@, bb),
                            !.unflushed = @ + 1,
                            !.size = @ + 1]
         IN IF o.maxsize > 0 /\ w.size > o.maxsize
            THEN [outRotate(o) EXCEPT !.written = Append(@, bb), !.size = 1,
                                      !.unflushed = 1]
            ELSE w

outFlush(o) == [o EXCEPT !.unflushed = 0]

outClose(o) == [o EXCEPT !.unflushed = 0, !.open = FALSE]

\* ------------------------------------------------------------------ Write
\* fa.messages <- bb: the payload joins the buffered ones at the tail
SendAt(q, bb) == Append(q, bb)

\* a channel made one slot too large
HasRoomOffByOne(q) == Len(q) <= LogBufferLength

\* make(chan []byte, l4g.LogBufferLength): a send completes while the buffer has room
HasRoom(q) == Len(q) < LogBufferLength

\* Write: fa.messages <- fa.layout.Format(rec).  The send panics on a closed
\* channel, completes at once while the buffer has room, and blocks otherwise.
WriteCall(p) ==
    /\ ~panicked
    /\ UNCHANGED timeVars
    /\ pc[p] = "idle"
    /\ calls.write < MaxMsgs
    /\ calls' = [calls EXCEPT !.write = @ + 1]
    /\ LET bb == calls.write + 1 IN
       IF msgClosed
       THEN /\ panicked' = TRUE
            /\ UNCHANGED <<messages, enqueued, pc, wbuf>>
       ELSE IF HasRoom(messages)
       THEN /\ messages' = SendAt(messages, bb)
            /\ enqueued' = Append(enqueued, bb)
            /\ UNCHANGED <<pc, wbuf, panicked>>
       ELSE /\ pc' = [pc EXCEPT ![p] = "send"]
            /\ wbuf' = [wbuf EXCEPT ![p] = bb]
            /\ UNCHANGED <<messages, enqueued, panicked>>
    /\ UNCHANGED <<msgClosed, loopReset, resetClosed, mu, stateVars, out, lp, ci,
                   myLoop, sres, initReturned>>

\* a producer blocked in the send: woken by room in the buffer, or by the close
WriteSend(p) ==
    /\ ~panicked
    /\ UNCHANGED timeVars
    /\ pc[p] = "send"
    /\ IF msgClosed
       THEN /\ panicked' = TRUE
            /\ UNCHANGED <<messages, enqueued, pc, wbuf>>
       ELSE /\ HasRoom(messages)
            /\ messages' = SendAt(messages, wbuf[p])
            /\ enqueued' = Append(enqueued, wbuf[p])
            /\ pc' = [pc EXCEPT ![p] = "idle"]
            /\ wbuf' = [wbuf EXCEPT ![p] = Nil]
            /\ UNCHANGED panicked
    /\ UNCHANGED <<msgClosed, loopReset, resetClosed, mu, stateVars, out, lp, ci,
                   myLoop, sres, calls, initReturned>>

\* ------------------------------------------------------------------- Init
NumLoops == Cardinality({l \in LoopIds : lp[l].pc # "none"})

\* Init without its check of fa.loopRunning
InitSeesNothing(running) == FALSE

\* if fa.loopRunning { return }
InitSees(running) == running

InitCall(t, max) ==
    /\ ~panicked
    /\ UNCHANGED timeVars
    /\ pc[t] = "idle"
    /\ calls.init < max
    /\ calls' = [calls EXCEPT !.init = @ + 1]
    /\ IF InitSees(loopRunning)
       THEN /\ initReturned' = initReturned + 1
            /\ UNCHANGED pc
       ELSE /\ pc' = [pc EXCEPT ![t] = "initSet"]
            /\ UNCHANGED initReturned
    /\ UNCHANGED <<chanVars, mu, stateVars, out, lp, wbuf, ci, myLoop, sres,
                   enqueued, panicked>>

\* fa.loopRunning = true; ready := make(chan struct{}); go fa.writeLoop(ready)
InitSpawn(t) ==
    /\ ~panicked
    /\ UNCHANGED timeVars
    /\ pc[t] = "initSet"
    /\ LET l == NumLoops + 1 IN
        /\ l \in LoopIds
        /\ loopRunning' = TRUE
        /\ lp' = [lp EXCEPT ![l] = [pc |-> "start", bb |-> Nil, ok |-> TRUE, cy |-> 0]]
        /\ myLoop' = [myLoop EXCEPT ![t] = l]
    /\ pc' = [pc EXCEPT ![t] = "initWait"]
    /\ UNCHANGED <<chanVars, mu, maxsize, cycle, clock, out, wbuf, ci, sres,
                   histVars, panicked>>

\* close(ready) has been executed by goroutine l
Ready(l) == lp[l].pc \notin {"none", "start"}

\* <-ready
InitWait(t) ==
    /\ ~panicked
    /\ UNCHANGED timeVars
    /\ pc[t] = "initWait"
    /\ Ready(myLoop[t])
    /\ pc' = [pc EXCEPT ![t] = "idle"]
    /\ initReturned' = initReturned + 1
    /\ UNCHANGED <<chanVars, mu, stateVars, out, lp, wbuf, ci, myLoop, sres,
                   enqueued, calls, panicked>>

\* ------------------------------------------------------------------ Close
\* close(fa.messages): panics when the channel is closed already
CloseCall(c, max) ==
    /\ ~panicked
    /\ UNCHANGED timeVars
    /\ pc[c] = "idle"
    /\ calls.close < max
    /\ calls' = [calls EXCEPT !.close = @ + 1]
    /\ IF msgClosed
       THEN /\ panicked' = TRUE
            /\ UNCHANGED <<msgClosed, pc, ci>>
       ELSE /\ msgClosed' = TRUE
            /\ pc' = [pc EXCEPT ![c] = "poll"]
            /\ ci' = [ci EXCEPT ![c] = ClosePolls]
            /\ UNCHANGED panicked
    /\ UNCHANGED <<messages, loopReset, resetClosed, mu, stateVars, out, lp, wbuf,
                   myLoop, sres, enqueued, initReturned>>

\* the queue looks drained to Close: len(fa.messages) <= 0
Drained(q) == Len(q) <= 0

\* for i := 10; i > 0; i-- { time.Sleep(...); if len(fa.messages) <= 0 { break } }
ClosePoll(c) ==
    /\ ~panicked
    /\ UNCHANGED timeVars
    /\ pc[c] = "poll"
    /\ IF Drained(messages) \/ ci[c] - 1 <= 0
       THEN /\ pc' = [pc EXCEPT ![c] = "outClose"]
            /\ ci' = [ci EXCEPT ![c] = 0]
       ELSE /\ ci' = [ci EXCEPT ![c] = @ - 1]
            /\ UNCHANGED pc
    /\ UNCHANGED <<chanVars, mu, stateVars, out, lp, wbuf, myLoop, sres,
                   histVars, panicked>>

\* if fa.out != nil { fa.out.Close() }
CloseOut(c) ==
    /\ ~panicked
    /\ UNCHANGED timeVars
    /\ pc[c] = "outClose"
    /\ out' = outClose(out)
    /\ pc' = [pc EXCEPT ![c] = "closeReset"]
    /\ UNCHANGED <<chanVars, mu, stateVars, lp, localVars, histVars, panicked>>

\* close(fa.loopReset): panics when the channel is closed already
CloseReset(c) ==
    /\ ~panicked
    /\ UNCHANGED timeVars
    /\ pc[c] = "closeReset"
    /\ IF resetClosed
       THEN /\ panicked' = TRUE
            /\ UNCHANGED <<resetClosed, pc>>
       ELSE /\ resetClosed' = TRUE
            /\ pc' = [pc EXCEPT ![c] = "idle"]
            /\ UNCHANGED panicked
    /\ UNCHANGED <<messages, msgClosed, loopReset, mu, stateVars, out, lp,
                   localVars, histVars>>

\* -------------------------------------------------------------- writeLoop
\* the rotation check without its test of the size
RotateCheckNoSize(o) ==
    IF cycle > 0 THEN outRotate(o) ELSE o

\* if fa.cycle > 0 && fa.out.Size() > fa.maxsize { fa.out.Rotate() }
RotateCheck(o) ==
    IF cycle > 0 /\ o.size > maxsize THEN outRotate(o) ELSE o

\* the wall clock is not followed: any amount of time may pass between two
\* steps, so that an armed timer may fire at any step
FreeRunning == -1

\* time.Date(y, m, d, 0, 0, 0, 0, loc): midnight of the calendar day of t, in a
\* zone whose days all have DaySeconds seconds
Midnight(t) == t - (t % DaySeconds)

\* midnight of the calendar day of now, where the code takes that of now + cycle
NextTimeToday(cy, cl, nrt) ==
    LET c == IF cy <= 0 THEN DaySeconds ELSE cy
    IN IF cl < 0 THEN nrt + c ELSE Midnight(nrt) + cl

\* nextTime(cycle, clock), with nrt the value of time.Now()
nextTime(cy, cl, nrt) ==
    LET c == IF cy <= 0 THEN DaySeconds ELSE cy
        nextCycle == nrt + c
    IN IF cl < 0 THEN nrt + c ELSE Midnight(nextCycle) + cl

\* nrt := nextTime(fa.cycle, fa.clock); time.NewTimer / rotTimer.Reset(nrt.Sub(time.Now()))
ArmTimer(l) ==
    rotTimer' = [rotTimer EXCEPT ![l] = IF now = FreeRunning THEN FreeRunning
                                        ELSE nextTime(cycle, clock, now)]

\* rotTimer.C delivers once the deadline has passed; a zero or negative duration
\* fires at once
TimerDue(l) == now = FreeRunning \/ now >= rotTimer[l]

\* lines 101-110: the start-up rotation check, nextTime, time.NewTimer, close(ready)
LoopStart(l) ==
    /\ ~panicked
    /\ lp[l].pc = "start"
    /\ out' = RotateCheck(out)
    /\ ArmTimer(l)
    /\ lp' = [lp EXCEPT ![l].pc = "select"]
    /\ UNCHANGED <<chanVars, mu, stateVars, pc, localVars, histVars, panicked, now>>

\* bb, ok := <-fa.messages: the oldest payload, or (nil, false) once the channel
\* is closed and empty
RecvFrom(q) == Head(q)

LoopRecv(l) ==
    /\ ~panicked
    /\ UNCHANGED timeVars
    /\ lp[l].pc = "select"
    /\ IF Len(messages) > 0
       THEN /\ lp' = [lp EXCEPT ![l] = [pc |-> "lock", bb |-> RecvFrom(messages),
                                         ok |-> TRUE, cy |-> 0]]
            /\ messages' = Tail(messages)
       ELSE /\ msgClosed
            /\ lp' = [lp EXCEPT ![l] = [pc |-> "lock", bb |-> Nil, ok |-> FALSE,
                                         cy |-> 0]]
            /\ UNCHANGED messages
    /\ UNCHANGED <<msgClosed, loopReset, resetClosed, mu, stateVars, out, pc,
                   localVars, histVars, panicked>>

\* the payload written a second time
WriteBBTwice(o, bb) == outWrite(outWrite(o, bb), bb)

\* fa.out.Write(bb) of the message case
WriteBB(o, bb) == outWrite(o, bb)

\* fa.mu.Lock(); fa.out.Write(bb)
LoopWrite(l) ==
    /\ ~panicked
    /\ UNCHANGED timeVars
    /\ lp[l].pc = "lock"
    /\ mu = "free"
    /\ mu' = LoopName(l)
    /\ out' = WriteBB(out, lp[l].bb)
    /\ lp' = [lp EXCEPT ![l].pc = "flush"]
    /\ UNCHANGED <<chanVars, stateVars, pc, localVars, histVars, panicked>>

\* the test of the queue length inverted
FlushIfBacklog(o, q) == IF Len(q) > 0 THEN outFlush(o) ELSE o

\* if len(fa.messages) <= 0 { fa.out.Flush() }
FlushIfIdle(o, q) == IF Len(q) <= 0 THEN outFlush(o) ELSE o

\* if len(fa.messages) <= 0 { fa.out.Flush() }; fa.mu.Unlock(); if !ok { ... }
LoopFlush(l) ==
    /\ ~panicked
    /\ UNCHANGED timeVars
    /\ lp[l].pc = "flush"
    /\ out' = FlushIfIdle(out, messages)
    /\ mu' = "free"
    /\ lp' = [lp EXCEPT ![l].pc = IF lp[l].ok THEN "select" ELSE "drain",
                        ![l].bb = Nil]
    /\ UNCHANGED <<chanVars, stateVars, pc, localVars, histVars, panicked>>

\* for bb := range fa.messages { fa.out.Write(bb) }: every buffered payload, oldest first
RECURSIVE WriteAll(_, _)
WriteAll(o, q) == IF q = <<>> THEN o ELSE WriteAll(outWrite(o, Head(q)), Tail(q))

\* fa.mu.Lock(); range over the closed channel; fa.mu.Unlock(); return
LoopDrain(l) ==
    /\ ~panicked
    /\ UNCHANGED timeVars
    /\ lp[l].pc = "drain"
    /\ mu = "free"
    /\ msgClosed
    /\ out' = WriteAll(out, messages)
    /\ messages' = <<>>
    /\ lp' = [lp EXCEPT ![l].pc = "exit"]
    /\ UNCHANGED <<msgClosed, loopReset, resetClosed, mu, stateVars, pc, localVars,
                   histVars, panicked>>

\* defer func() { fa.loopRunning = false }()
LoopExit(l) ==
    /\ ~panicked
    /\ UNCHANGED timeVars
    /\ lp[l].pc = "exit"
    /\ loopRunning' = FALSE
    /\ lp' = [lp EXCEPT ![l].pc = "dead"]
    /\ UNCHANGED <<chanVars, mu, maxsize, cycle, clock, out, pc, localVars, histVars,
                   panicked>>

\* case <-rotTimer.C: nextTime, rotTimer.Reset, the rotation check
LoopTimer(l) ==
    /\ ~panicked
    /\ lp[l].pc = "select"
    /\ TimerDue(l)
    /\ ArmTimer(l)
    /\ out' = RotateCheck(out)
    /\ UNCHANGED <<chanVars, mu, stateVars, lp, pc, localVars, histVars, panicked, now>>

\* The timer case at the granularity of its reads of the appender's fields, which
\* are made outside fa.mu.  First nextTime, rotTimer.Reset and the test fa.cycle > 0:
LoopTimerRead(l) ==
    /\ ~panicked
    /\ lp[l].pc = "select"
    /\ TimerDue(l)
    /\ ArmTimer(l)
    /\ lp' = [lp EXCEPT ![l].pc = "tickCheck", ![l].cy = cycle]
    /\ UNCHANGED <<chanVars, mu, stateVars, out, pc, localVars, histVars, panicked, now>>

\* ... && fa.out.Size() > fa.maxsize { fa.out.Rotate() }, after fa.cycle was read as cy
RotateAfterRead(cy, o) ==
    IF cy > 0 /\ o.size > maxsize THEN outRotate(o) ELSE o

\* then the test of the size and the rotation
LoopTimerRotate(l) ==
    /\ ~panicked
    /\ lp[l].pc = "tickCheck"
    /\ out' = RotateAfterRead(lp[l].cy, out)
    /\ lp' = [lp EXCEPT ![l].pc = "select", ![l].cy = 0]
    /\ UNCHANGED <<chanVars, mu, stateVars, pc, localVars, histVars, panicked, timeVars>>

\* case <-fa.loopReset: a token, or the zero value once the channel is closed;
\* nextTime, rotTimer.Reset
LoopReset(l) ==
    /\ ~panicked
    /\ lp[l].pc = "select"
    /\ IF loopReset > 0
       THEN loopReset' = loopReset - 1
       ELSE resetClosed /\ UNCHANGED loopReset
    /\ ArmTimer(l)
    /\ UNCHANGED <<messages, msgClosed, resetClosed, mu, stateVars, out, lp, pc,
                   localVars, histVars, panicked, now>>

\* the wall clock moves on to the instant t
Advance(t, limit) ==
    /\ ~panicked
    /\ now # FreeRunning
    /\ now < t
    /\ t <= limit
    /\ now' = t
    /\ UNCHANGED <<chanVars, mu, stateVars, out, lp, pc, localVars, histVars,
                   panicked, rotTimer>>

\* -------------------------------------------------------------- SetOption
\* The value v of SetOption(name, v interface{}): its dynamic type t and the
\* value under that type.  A string is the sequence of its characters.
IntV(n)  == [t |-> "int", i |-> n, s |-> <<>>, b |-> FALSE]
StrV(cs) == [t |-> "string", i |-> 0, s |-> cs, b |-> FALSE]
BoolV(x) == [t |-> "bool", i |-> 0, s |-> <<>>, b |-> x]
\* a value of any other dynamic type (a float64, a nil, ...)
OtherV   == [t |-> "other", i |-> 0, s |-> <<>>, b |-> FALSE]

Digits == {"0", "1", "2", "3", "4", "5", "6", "7", "8", "9"}
DigitVal(c) ==
    CASE c = "0" -> 0 [] c = "1" -> 1 [] c = "2" -> 2 [] c = "3" -> 3 [] c = "4" -> 4
      [] c = "5" -> 5 [] c = "6" -> 6 [] c = "7" -> 7 [] c = "8" -> 8 [] c = "9" -> 9

RECURSIVE Num(_)
Num(ds) == IF ds = <<>> THEN 0
           ELSE Num(SubSeq(ds, 1, Len(ds) - 1)) * 10 + DigitVal(ds[Len(ds)])

\* strconv.Atoi: an optional sign and at least one decimal digit; anything else
\* is a syntax error, with value 0
Atoi(str) ==
    LET signed == Len(str) > 0 /\ str[1] \in {"+", "-"}
        body   == IF signed THEN Tail(str) ELSE str
        ok     == Len(body) > 0 /\ \A k \in 1..Len(body) : body[k] \in Digits
    IN [val |-> IF ~ok THEN 0
                ELSE IF signed /\ str[1] = "-" THEN 0 - Num(body) ELSE Num(body),
        ok  |-> ok]

\* strings.Trim(value, " \r\n")
Blank == {" ", "\r", "\n"}
RECURSIVE TrimLeft(_)
TrimLeft(str) == IF str # <<>> /\ str[1] \in Blank THEN TrimLeft(Tail(str)) ELSE str
RECURSIVE TrimRight(_)
TrimRight(str) ==
    IF str # <<>> /\ str[Len(str)] \in Blank
    THEN TrimRight(SubSeq(str, 1, Len(str) - 1)) ELSE str
Trim(str) == TrimRight(TrimLeft(str))

\* the number, and whether strconv.Atoi accepted the digits
NumSuffix(str, mult) ==
    LET last == IF Len(str) > 1 THEN str[Len(str)] ELSE ""
        num  == IF last \in {"G", "g"} THEN mult * mult * mult
                ELSE IF last \in {"M", "m"} THEN mult * mult
                ELSE IF last \in {"K", "k"} THEN mult
                ELSE 1
        body == IF last \in {"G", "g", "M", "m", "K", "k"}
                THEN SubSeq(str, 1, Len(str) - 1) ELSE str
        a    == Atoi(body)
    IN [val |-> a.val * num, ok |-> a.ok]

\* l4g.StrToNumSuffix: parsed, _ := strconv.Atoi(str); return parsed * num
StrToNumSuffix(str, mult) == NumSuffix(str, mult).val

\* time.ParseDuration on strings without a fraction, in milliseconds: a sign,
\* then groups of digits followed by a unit among ms, s, m, h; -1 is an error
UnitMs(u) ==
    CASE u = <<"m", "s">> -> 1
      [] u = <<"s">> -> 1000
      [] u = <<"m">> -> 60000
      [] u = <<"h">> -> 3600000
      [] OTHER -> -1

RECURSIVE LeadLen(_, _)
LeadLen(str, digit) ==
    IF str # <<>> /\ ((str[1] \in Digits) = digit) THEN 1 + LeadLen(Tail(str), digit) ELSE 0

RECURSIVE Groups(_)
Groups(str) ==
    IF str = <<>> THEN 0
    ELSE LET nd   == LeadLen(str, TRUE)
             rest == SubSeq(str, nd + 1, Len(str))
             nu   == LeadLen(rest, FALSE)
             unit == UnitMs(SubSeq(rest, 1, nu))
             more == Groups(SubSeq(rest, nu + 1, Len(rest)))
         IN IF nd = 0 \/ nu = 0 \/ unit < 0 \/ more < 0 THEN -1
            ELSE Num(SubSeq(str, 1, nd)) * unit + more

ParseDuration(str) ==
    LET signed == Len(str) > 0 /\ str[1] \in {"+", "-"}
        body   == IF signed THEN Tail(str) ELSE str
        g      == IF body = <<>> THEN -1 ELSE Groups(body)
    IN IF str = <<"0">> THEN [ms |-> 0, neg |-> FALSE, ok |-> TRUE]
       ELSE IF g < 0 THEN [ms |-> 0, neg |-> FALSE, ok |-> FALSE]
       ELSE [ms |-> g, neg |-> signed /\ str[1] = "-", ok |-> TRUE]

\* dur, _ := time.ParseDuration(value); int(dur/time.Second): the quotient is
\* truncated towards zero
DurationSeconds(str) ==
    LET d == ParseDuration(str)
    IN IF d.neg THEN 0 - (d.ms \div 1000) ELSE d.ms \div 1000

\* the outcome of the switch: the appender state it leaves, the error returned,
\* and whether a token is sent on fa.loopReset before returning
Ret(st, e) == [st EXCEPT !.err = e]

\* a switch without its default case
UnknownOptionAccepted(st) == st

\* default: return l4g.ErrBadOption
UnknownOption(st) == Ret(st, "ErrBadOption")

\* fa.out.SetMaxSize
SetMaxSize(st, n) == [st EXCEPT !.out.maxsize = n]

\* the maxsize case without its test of fa.cycle
StoreMaxsizeAlways(st, n) == SetMaxSize([st EXCEPT !.maxsize = n], n)

\* fa.maxsize = maxsize; if fa.cycle <= 0 { fa.out.SetMaxSize(fa.maxsize) }
StoreMaxsize(st, n) ==
    LET st1 == [st EXCEPT !.maxsize = n]
    IN IF st1.cycle <= 0 THEN SetMaxSize(st1, st1.maxsize) ELSE st1

\* if fa.cycle <= 0 { SetMaxSize(fa.maxsize) } else { SetMaxSize(0) };
\* if fa.loopRunning { fa.loopReset <- time.Now() }
StoreCycle(st, n) ==
    LET st1 == [st EXCEPT !.cycle = n]
        st2 == IF st1.cycle <= 0 THEN SetMaxSize(st1, st1.maxsize) ELSE SetMaxSize(st1, 0)
    IN [st2 EXCEPT !.send = st.running]

\* if fa.loopRunning { fa.loopReset <- time.Now() }
StoreClock(st, n) == [st EXCEPT !.clock = n, !.send = st.running]

\* fa.cycle = 86400; fa.clock = 0; fa.maxsize = 0; fa.out.SetMaxSize(0); the token
StoreDaily(st) ==
    [SetMaxSize([st EXCEPT !.cycle = DaySeconds, !.clock = 0, !.maxsize = 0], 0)
        EXCEPT !.send = st.running]

\* case int / case string with StrToNumSuffix / default
NumArg(v, mult) ==
    CASE v.t = "int" -> [val |-> v.i, ok |-> TRUE]
      [] v.t = "string" -> [val |-> StrToNumSuffix(Trim(v.s), mult), ok |-> TRUE]
      [] OTHER -> [val |-> 0, ok |-> FALSE]

\* case int / case string with time.ParseDuration / default
SecondsArg(v) ==
    CASE v.t = "int" -> [val |-> v.i, ok |-> TRUE]
      [] v.t = "string" -> [val |-> DurationSeconds(v.s), ok |-> TRUE]
      [] OTHER -> [val |-> 0, ok |-> FALSE]

\* case string: strings.Trim(value, " \r\n") != "false" / case bool / default
BoolArg(v) ==
    CASE v.t = "string" -> [val |-> Trim(v.s) # <<"f", "a", "l", "s", "e">>, ok |-> TRUE]
      [] v.t = "bool" -> [val |-> v.b, ok |-> TRUE]
      [] OTHER -> [val |-> FALSE, ok |-> FALSE]

\* the switch of SetOption, run under fa.mu.  mkdirOk: os.MkdirAll succeeded;
\* layoutErr: what fa.layout.SetOption returned.
SetOptionBody(name, v, st, mkdirOk, layoutErr) ==
    CASE name = "filename" ->
            IF v.t # "string" \/ Len(v.s) <= 0 THEN Ret(st, "ErrBadValue")
            ELSE IF ~mkdirOk THEN Ret(st, "IOError")
            ELSE [st EXCEPT !.out.filename = v.s]
      [] name = "flush" ->
            LET a == NumArg(v, 1024)
            IN IF a.ok THEN [st EXCEPT !.out.flush = a.val] ELSE Ret(st, "ErrBadValue")
      [] name = "maxbackup" ->
            LET a == NumArg(v, 1)
            IN IF a.ok THEN [st EXCEPT !.out.maxbackup = a.val] ELSE Ret(st, "ErrBadValue")
      [] name = "maxsize" ->
            LET a == NumArg(v, 1024)
            IN IF a.ok THEN StoreMaxsize(st, a.val) ELSE Ret(st, "ErrBadValue")
      [] name \in {"pattern", "format", "utc"} -> Ret(st, layoutErr)
      [] name = "head" ->
            IF v.t = "string" THEN [st EXCEPT !.out.head = v.s] ELSE Ret(st, "ErrBadValue")
      [] name = "foot" ->
            IF v.t = "string" THEN [st EXCEPT !.out.foot = v.s] ELSE Ret(st, "ErrBadValue")
      [] name = "cycle" ->
            LET a == SecondsArg(v)
            IN IF a.ok THEN StoreCycle(st, a.val) ELSE Ret(st, "ErrBadValue")
      [] name \in {"clock", "delay0"} ->
            LET a == SecondsArg(v)
            IN IF a.ok THEN StoreClock(st, a.val) ELSE Ret(st, "ErrBadValue")
      [] name = "daily" ->
            LET a == BoolArg(v)
            IN IF ~a.ok THEN Ret(st, "ErrBadValue")
               ELSE IF a.val THEN StoreDaily(st) ELSE st
      [] OTHER -> UnknownOption(st)

\* fa.mu.Lock(); defer fa.mu.Unlock(); the switch.  The call returns at once
\* unless the switch ends in a send on fa.loopReset, made with fa.mu held.
SetOption(t, opt) ==
    /\ ~panicked
    /\ UNCHANGED timeVars
    /\ pc[t] = "idle"
    /\ calls.set < MaxSets
    /\ mu = "free"
    /\ calls' = [calls EXCEPT !.set = @ + 1]
    /\ \E mkdirOk \in BOOLEAN, layoutErr \in {"nil", "ErrBadValue"} :
        LET st == [maxsize |-> maxsize, cycle |-> cycle, clock |-> clock, out |-> out,
                   running |-> loopRunning, err |-> "nil", send |-> FALSE]
            r  == SetOptionBody(opt.name, opt.v, st, mkdirOk, layoutErr)
        IN /\ maxsize' = r.maxsize
           /\ cycle' = r.cycle
           /\ clock' = r.clock
           /\ out' = r.out
           /\ sres' = [sres EXCEPT ![t] = r.err]
           /\ IF r.send
              THEN mu' = t /\ pc' = [pc EXCEPT ![t] = "setSend"]
              ELSE UNCHANGED <<mu, pc>>
    /\ UNCHANGED <<chanVars, loopRunning, lp, wbuf, ci, myLoop, enqueued,
                   initReturned, panicked>>

\* fa.loopReset <- time.Now(), then the deferred fa.mu.Unlock(): the send panics
\* on a closed channel and blocks while the buffer is full
SetSend(t) ==
    /\ ~panicked
    /\ UNCHANGED timeVars
    /\ pc[t] = "setSend"
    /\ IF resetClosed
       THEN /\ panicked' = TRUE
            /\ UNCHANGED <<loopReset, mu, pc>>
       ELSE /\ loopReset < LogBufferLength
            /\ loopReset' = loopReset + 1
            /\ mu' = "free"
            /\ pc' = [pc EXCEPT ![t] = "idle"]
            /\ UNCHANGED panicked
    /\ UNCHANGED <<messages, msgClosed, resetClosed, stateVars, out, lp, localVars,
                   histVars>>

\* the options SetOption is called with while the other goroutines run
Opt(n, v) == [name |-> n, v |-> v]
LoopOpts ==
    { Opt("cycle", StrV(<<"1", "h">>)), Opt("daily", BoolV(TRUE)),
      Opt("clock", IntV(0)) }

\* ------------------------------------------------------------ NewAppender
\* sinkMax: the size threshold l4g.NewRotateFileWriter starts with; clk: fa.clock,
\* -1 from NewAppender and 0 once SetOption("daily", true) has been called on
\* the new appender (it leaves cycle, maxsize and the sink threshold at their
\* values); t0: the wall clock
InitState(sinkMax, clk, t0) ==
    /\ messages = <<>>
    /\ msgClosed = FALSE
    /\ loopReset = 0
    /\ resetClosed = FALSE
    /\ mu = "free"
    /\ maxsize = 0
    /\ cycle = DaySeconds
    /\ clock = clk
    /\ loopRunning = FALSE
    /\ out = [open |-> TRUE, written |-> <<>>, unflushed |-> 0, size |-> 0,
              rotations |-> 0, maxsize |-> sinkMax, flush |-> 0, maxbackup |-> 0,
              filename |-> <<"f", "0">>, head |-> <<>>, foot |-> <<>>]
    /\ lp = [l \in LoopIds |-> [pc |-> "none", bb |-> Nil, ok |-> TRUE, cy |-> 0]]
    /\ pc = [t \in Clients |-> "idle"]
    /\ wbuf = [p \in Producers |-> Nil]
    /\ ci = [c \in Closers |-> 0]
    /\ myLoop = [t \in Initers |-> 0]
    /\ sres = [s \in Setters |-> "none"]
    /\ enqueued = <<>>
    /\ calls = [write |-> 0, init |-> 0, close |-> 0, set |-> 0]
    /\ initReturned = 0
    /\ panicked = FALSE
    /\ now = t0
    /\ rotTimer = [l \in LoopIds |-> t0]

InitWith(sinkMax) == InitState(sinkMax, -1, FreeRunning)

Init == InitWith(0)

LoopStep(l) ==
    \/ LoopStart(l) \/ LoopRecv(l) \/ LoopWrite(l)
    \/ LoopFlush(l) \/ LoopDrain(l) \/ LoopExit(l) \/ LoopTimer(l) \/ LoopReset(l)

Loops == \E l \in LoopIds : LoopStep(l)

\* normal operation: one Init, producers and a configurer beside the loop, one Close
Next ==
    \/ \E p \in Producers : WriteCall(p) \/ WriteSend(p)
    \/ InitCall("i1", 1) \/ InitSpawn("i1") \/ InitWait("i1")
    \/ \E t \in Setters : SetSend(t) \/ \E opt \in LoopOpts : SetOption(t, opt)
    \/ \E c \in Closers : CloseCall(c, 1) \/ ClosePoll(c) \/ CloseOut(c) \/ CloseReset(c)
    \/ Loops

Spec == Init /\ [][Next]_vars

\* one goroutine calls Init and another calls Close, each several times in a row
NextCalls ==
    \/ WriteCall("p1") \/ WriteSend("p1")
    \/ InitCall("i1", MaxInits) \/ InitSpawn("i1") \/ InitWait("i1")
    \/ \E c \in Closers :
          CloseCall(c, MaxCloses) \/ ClosePoll(c) \/ CloseOut(c) \/ CloseReset(c)
    \/ Loops

SpecCalls == Init /\ [][NextCalls]_vars

\* several goroutines call Init on the one appender
NextInitRace ==
    \/ WriteCall("p1") \/ WriteSend("p1")
    \/ \E t \in Initers : InitCall(t, MaxInits) \/ InitSpawn(t) \/ InitWait(t)
    \/ \E c \in Closers : CloseCall(c, 1) \/ ClosePoll(c) \/ CloseOut(c) \/ CloseReset(c)
    \/ Loops

SpecInitRace == Init /\ [][NextInitRace]_vars

\* the options of a configuration: every key, with values of every accepted
\* type, of a wrong type, and strings the parsers reject
AllOpts ==
    { Opt("bogus", IntV(1)),
      Opt("filename", StrV(<<"f", "1">>)), Opt("filename", StrV(<<>>)),
      Opt("filename", IntV(1)),
      Opt("flush", StrV(<<"4", "K">>)), Opt("flush", OtherV),
      Opt("maxbackup", IntV(3)), Opt("maxbackup", StrV(<<"x">>)),
      Opt("maxbackup", BoolV(TRUE)),
      Opt("maxsize", IntV(2)), Opt("maxsize", StrV(<<" ", "1", "K">>)),
      Opt("maxsize", StrV(<<"a", "b", "c">>)), Opt("maxsize", OtherV),
      Opt("pattern", StrV(<<"%", "M">>)), Opt("utc", BoolV(TRUE)),
      Opt("head", StrV(<<"h">>)), Opt("head", IntV(1)),
      Opt("foot", StrV(<<"t">>)), Opt("foot", OtherV),
      Opt("cycle", IntV(0)), Opt("cycle", StrV(<<"1", "h">>)),
      Opt("cycle", StrV(<<"-", "9", "0", "s">>)), Opt("cycle", StrV(<<"x", "y", "z">>)),
      Opt("cycle", BoolV(TRUE)),
      Opt("clock", IntV(0)), Opt("clock", StrV(<<"3", "0", "m">>)),
      Opt("clock", StrV(<<"n", "o", "o", "n">>)), Opt("clock", OtherV),
      Opt("delay0", IntV(60)),
      Opt("daily", BoolV(TRUE)), Opt("daily", BoolV(FALSE)),
      Opt("daily", StrV(<<"f", "a", "l", "s", "e">>)), Opt("daily", StrV(<<"y", "e", "s">>)),
      Opt("daily", IntV(1)) }

\* a configuration: SetOption calls before and after Init, nothing written or closed,
\* so that writeLoop only starts, ticks and takes the tokens
NextOpts ==
    \/ \E t \in Setters : SetSend(t) \/ \E opt \in AllOpts : SetOption(t, opt)
    \/ InitCall("i1", 1) \/ InitSpawn("i1") \/ InitWait("i1")
    \/ \E l \in LoopIds : LoopStart(l) \/ LoopTimer(l) \/ LoopReset(l)

\* the sink starts with rotation by size off, or with a threshold of its own
InitOpts == \E sinkMax \in {0, 1048576} : InitWith(sinkMax)

SpecOpts == InitOpts /\ [][NextOpts]_vars

\* a daily appender (NewAppender, then SetOption("daily", true)) at 23:59:59: Init
\* and Write calls while the wall clock moves on, second by second, to 00:00:01
NextMidnight ==
    \/ WriteCall("p1") \/ WriteSend("p1")
    \/ InitCall("i1", 1) \/ InitSpawn("i1") \/ InitWait("i1")
    \/ \E l \in LoopIds :
          LoopStart(l) \/ LoopRecv(l) \/ LoopWrite(l) \/ LoopFlush(l) \/ LoopTimer(l)
    \/ Advance(now + 1, DaySeconds + 1)

InitMidnight == InitState(0, 0, DaySeconds - 1)

SpecMidnight == InitMidnight /\ [][NextMidnight]_vars

\* the options that move the appender between size mode and time-cycle mode
ModeOpts ==
    { Opt("cycle", IntV(0)), Opt("cycle", StrV(<<"1", "h">>)), Opt("maxsize", IntV(1)) }

\* both rotation modes: a producer and a configurer beside the running loop,
\* whose timer case is followed read by read
NextRotate ==
    \/ WriteCall("p1") \/ WriteSend("p1")
    \/ InitCall("i1", 1) \/ InitSpawn("i1") \/ InitWait("i1")
    \/ \E t \in Setters : SetSend(t) \/ \E opt \in ModeOpts : SetOption(t, opt)
    \/ \E l \in LoopIds :
          \/ LoopStart(l) \/ LoopRecv(l) \/ LoopWrite(l) \/ LoopFlush(l)
          \/ LoopTimerRead(l) \/ LoopTimerRotate(l) \/ LoopReset(l)

SpecRotate == Init /\ [][NextRotate]_vars

\* the options that set the rotation schedule
ClockOpts ==
    { Opt("cycle", StrV(<<"1", "h">>)), Opt("cycle", IntV(2 * DaySeconds)),
      Opt("cycle", IntV(0)), Opt("clock", StrV(<<"3", "0", "m">>)),
      Opt("clock", IntV(-1)), Opt("daily", BoolV(TRUE)) }

\* the times of day the wall clock starts at: 00:00:00, 00:29:59, 10:00:00,
\* 23:30:00, 23:59:59
StartTimes == {0, 1799, 36000, 84600, DaySeconds - 1}

\* the rotation schedule: SetOption calls before and after Init, while the wall
\* clock moves on from deadline to deadline
NextClock ==
    \/ \E t \in Setters : SetSend(t) \/ \E opt \in ClockOpts : SetOption(t, opt)
    \/ InitCall("i1", 1) \/ InitSpawn("i1") \/ InitWait("i1")
    \/ \E l \in LoopIds :
          \/ LoopStart(l) \/ LoopTimer(l) \/ LoopReset(l)
          \/ Advance(rotTimer[l], MaxDays * DaySeconds)

InitClock == \E t0 \in StartTimes : InitState(0, -1, t0)

SpecClock == InitClock /\ [][NextClock]_vars

\* ----------------------------------------------------------------- claims
IsPrefix(a, b) == Len(a) <= Len(b) /\ \A k \in 1..Len(a) : a[k] = b[k]
Range(q) == {q[k] : k \in 1..Len(q)}

\* the writeLoop goroutines that have been spawned and have not returned
AliveLoops == {l \in LoopIds : lp[l].pc \notin {"none", "dead"}}

\* the state of the appender and of its goroutines, without the history
progVars == <<chanVars, mu, stateVars, out, lp, pc, localVars, panicked>>

C2_DrainOnClose ==
    [][(/\ \E c \in Closers : pc[c] = "outClose" /\ pc'[c] = "closeReset"
        /\ initReturned >= 1
        /\ AliveLoops # {}
        /\ \A l \in AliveLoops : Ready(l))
       => Range(enqueued) \subseteq Range(out.written)]_vars

\* C3: an Init call made after an Init has returned, while writeLoop is alive,
\* spawns nothing and changes no state: exactly one writeLoop exists.
C3_InitIdempotent ==
    [][(calls'.init = calls.init + 1 /\ initReturned >= 1 /\ AliveLoops # {})
       => /\ UNCHANGED progVars
          /\ initReturned' = initReturned + 1
          /\ Cardinality(AliveLoops') = 1]_vars

\* a second Init has returned beside the writeLoop the first one spawned
C3_Witness ==
    /\ calls.init >= 2
    /\ initReturned >= 2
    /\ NumLoops = 1
    /\ AliveLoops # {}

\* C4: whatever the interleaving of the Init calls of several goroutines, at
\* most one writeLoop is alive at any time.
C4_SingleConsumer == Cardinality(AliveLoops) <= 1

\* C5: no Init call returns before writeLoop has made its start-up rotation
\* check, computed the first deadline, armed the timer and closed ready.
C5_InitReturnsWhenReady ==
    [][initReturned' > initReturned => (NumLoops >= 1 /\ Ready(NumLoops))]_vars

\* C6: a Close called on an appender that is closed already completes without
\* failure and changes nothing: each channel is closed exactly once.
C6_CloseIdempotent ==
    [][(calls'.close = calls.close + 1 /\ calls.close >= 1 /\ resetClosed)
       => (~panicked' /\ UNCHANGED <<chanVars, mu, stateVars, out, lp>>)]_vars

\* C10: the channel never holds more than LogBufferLength payloads; a Write
\* returns only by a step that found room and put its own payload at the tail;
\* a Write made while the channel is full stays blocked and changes nothing; and
\* the buffered payloads change only by a send at the tail, a receive at the
\* head, or the drain that writes them all to the sink.
C10_Backpressure ==
    [][/\ Len(messages) <= LogBufferLength
       /\ Len(messages') <= LogBufferLength
       /\ \A p \in Producers :
            (pc[p] = "send" /\ pc'[p] = "idle")
                => (Len(messages) < LogBufferLength
                    /\ messages' = Append(messages, wbuf[p]))
       /\ (calls'.write = calls.write + 1 /\ ~panicked')
            => IF Len(messages) < LogBufferLength
               THEN pc' = pc /\ messages' = Append(messages, calls'.write)
               ELSE messages' = messages
                    /\ \E p \in Producers :
                          pc[p] = "idle" /\ pc'[p] = "send" /\ wbuf'[p] = calls'.write
       /\ \/ messages' = messages
          \/ \E bb \in 1..MaxMsgs : messages' = Append(messages, bb)
          \/ messages # <<>> /\ messages' = Tail(messages)
          \/ messages' = <<>> /\ out'.written = out.written \o messages]_vars

\* a producer blocked in Write on the full channel beside the running writeLoop,
\* after an earlier blocked Write was let through by a receive
C10_Witness ==
    /\ \E p \in Producers : pc[p] = "send"
    /\ Len(messages) = LogBufferLength
    /\ Len(enqueued) > LogBufferLength
    /\ AliveLoops # {}
    /\ ~msgClosed
    /\ ~panicked

\* the option names of SetOption's documentation and switch
KnownNames ==
    {"filename", "flush", "maxbackup", "maxsize", "pattern", "format", "utc", "head",
     "foot", "cycle", "clock", "delay0", "daily"}

\* C7: SetOption with an unrecognised name returns ErrBadOption and leaves cycle,
\* clock, maxsize, loopRunning, the sink and the reschedule channel as they were.
C7_BadOption ==
    [][\A t \in Setters, opt \in AllOpts :
         (opt.name \notin KnownNames /\ SetOption(t, opt))
            => /\ sres'[t] = "ErrBadOption"
               /\ pc'[t] = "idle"
               /\ UNCHANGED <<cycle, clock, maxsize, loopRunning, out, loopReset,
                              resetClosed>>]_vars

\* SetOption("bogus", 1) has returned ErrBadOption on a configured, running appender
C7_Witness ==
    /\ sres["s1"] = "ErrBadOption"
    /\ loopRunning
    /\ cycle = 3600

\* the value is of a type the key's case does not accept
WrongTyped(opt) ==
    \/ opt.name \in {"filename", "head", "foot"} /\ opt.v.t # "string"
    \/ opt.name \in {"flush", "maxbackup", "maxsize", "cycle", "clock", "delay0"}
         /\ opt.v.t \notin {"int", "string"}
    \/ opt.name = "daily" /\ opt.v.t \notin {"string", "bool"}

\* the value is a string the key's parser rejects
Unparseable(opt) ==
    /\ opt.v.t = "string"
    /\ \/ opt.name \in {"flush", "maxbackup", "maxsize"}
            /\ ~NumSuffix(Trim(opt.v.s), 1024).ok
       \/ opt.name \in {"cycle", "clock", "delay0"} /\ ~ParseDuration(opt.v.s).ok

\* C8: SetOption with a wrong-typed or unparseable value for a recognised key
\* returns ErrBadValue, leaves cycle, clock, maxsize and the sink threshold as
\* they were, and posts no reschedule token.
C8_BadValue ==
    [][\A t \in Setters, opt \in AllOpts :
         ((WrongTyped(opt) \/ Unparseable(opt)) /\ SetOption(t, opt))
            => /\ sres'[t] = "ErrBadValue"
               /\ pc'[t] = "idle"
               /\ UNCHANGED <<cycle, clock, maxsize, loopReset>>
               /\ out'.maxsize = out.maxsize]_vars

\* the sink threshold is maxsize in size mode and 0 in time-cycle mode
ModeRule == out.maxsize = (IF cycle <= 0 THEN maxsize ELSE 0)

\* a SetOption of cycle, or of daily with a true value, that returned no error
SetsMode ==
    \E t \in Setters, opt \in AllOpts :
        /\ SetOption(t, opt)
        /\ sres'[t] = "nil"
        /\ opt.name = "cycle" \/ (opt.name = "daily" /\ BoolArg(opt.v).val)

\* C9: the mode rule is established by any SetOption of cycle or daily=true and
\* kept by every later step, SetOption calls of any key included.
C9_ModeExclusive == [][(ModeRule \/ SetsMode) => ModeRule']_vars

\* the rule did not hold at construction, a SetOption of cycle established it and
\* a later maxsize call in size mode moved the sink threshold with it
C9_Witness ==
    /\ ModeRule
    /\ cycle <= 0
    /\ maxsize = 2
    /\ out.maxsize = 2
    /\ calls.set >= 2

\* C11: no state is reachable in which a SetOption call holds fa.mu while blocked
\* in its send on the full reschedule channel and writeLoop, the only receiver
\* of that channel, is blocked waiting for fa.mu: such a SetOption never returns.
C11_NoResetDeadlock ==
    ~(/\ \E t \in Setters : pc[t] = "setSend" /\ mu = t
      /\ ~resetClosed
      /\ loopReset >= LogBufferLength
      /\ AliveLoops # {}
      /\ \A l \in AliveLoops : lp[l].pc \in {"lock", "drain"}
      /\ ~panicked)

\* C12: every touch of the sink (write, flush, size, rotate, the setters, close)
\* is made inside fa.mu, so that two goroutines are never inside the sink at the
\* same time: while a goroutine holds fa.mu and keeps it, no step of another
\* goroutine changes the sink.  (The holder's own steps take or give back the lock.)
C12_ExclusiveSink == [][(mu # "free" /\ mu' = mu) => out' = out]_vars

\* the timer case of the writeLoop that armed its timer at 23:59:59 for midnight
MidnightTick ==
    /\ lp[1].pc = "select"
    /\ rotTimer[1] = DaySeconds
    /\ rotTimer'[1] # rotTimer[1]

\* C13 as stated: with cycle = 86400, clock = 0 and writeLoop started at
\* 23:59:59, up to 00:00:01 the sink is rotated only by the midnight tick, and
\* that tick rotates it once, whatever number of payloads was written before.
C13_OneRotationAtMidnight ==
    [][/\ out'.rotations # out.rotations => (MidnightTick /\ out'.rotations = 1)
       /\ MidnightTick => out'.rotations = 1]_vars

\* C13 amended: with cycle = 86400, clock = 0 and writeLoop started at 23:59:59,
\* up to 00:00:01 the sink is rotated only by the midnight tick, and that tick
\* rotates it once exactly when the size of the sink exceeds maxsize then, and
\* not at all otherwise (nothing written: no rotation).
C13_RotationAtMidnightIfOversize ==
    [][/\ out'.rotations # out.rotations
            => (MidnightTick /\ out.size > maxsize /\ out'.rotations = 1)
       /\ MidnightTick => out'.rotations = (IF out.size > maxsize THEN 1 ELSE 0)]_vars

\* 00:00:01: the midnight tick has rotated the sink once, after two payloads
\* written before midnight and before a third one written after it
C13_Witness ==
    /\ now = DaySeconds + 1
    /\ out.rotations = 1
    /\ rotTimer[1] = 2 * DaySeconds
    /\ Len(out.written) = 3
    /\ out.size = 1

\* C14: the sink is rotated without a write (an explicit fa.out.Rotate()) only by
\* writeLoop's start or its timer case, and only when at that moment the appender
\* is in time-cycle mode (cycle > 0) with the size of the sink above maxsize;
\* handling a payload does the sink's write and
\* nothing more; handling a reschedule token leaves the queue and the sink as
\* they were.
C14_ExplicitRotate ==
    [][/\ (out'.rotations # out.rotations /\ out'.written = out.written)
            => /\ cycle > 0
               /\ out.size > maxsize
               /\ out' = outRotate(out)
               /\ loopReset' = loopReset
               /\ messages' = messages
               /\ \E l \in LoopIds :
                     \/ lp[l].pc = "start" /\ lp'[l].pc = "select"
                     \/ lp[l].pc = "tickCheck" /\ lp'[l].pc = "select"
       /\ out'.written # out.written
            => \E l \in LoopIds :
                  /\ lp[l].pc = "lock"
                  /\ out' = outWrite(out, lp[l].bb)
                  /\ (out'.rotations # out.rotations => out.maxsize > 0)
       /\ loopReset' < loopReset => UNCHANGED <<messages, out>>]_vars

\* C15: whenever writeLoop waits in its select and the queue is empty, the sink
\* holds no payload that was written and not flushed, whatever the producers
\* enqueue between the write and the test of the queue length.
C15_FlushOnIdle ==
    \A l \in LoopIds :
        (lp[l].pc = "select" /\ messages = <<>>) => out.unflushed = 0

\* the loop is idle on the open appender after every payload was written, one of
\* them while a producer stood blocked on the full queue
C15_Witness ==
    /\ lp[1].pc = "select"
    /\ messages = <<>>
    /\ Len(out.written) = MaxMsgs
    /\ enqueued # <<1, 2, 3>>
    /\ out.unflushed = 0
    /\ out.rotations = 0
    /\ out.open
    /\ ~msgClosed

\* C16: every step that changes fa.maxsize, fa.cycle, fa.clock or fa.loopRunning
\* is made by a goroutine inside fa.mu: it takes or gives back the lock, or it is
\* a whole SetOption call, which runs under the lock from its first line to its
\* return.
C16_MutationsUnderLock ==
    [][<<maxsize, cycle, clock, loopRunning>>' # <<maxsize, cycle, clock, loopRunning>>
          => (mu' # mu \/ calls'.set # calls.set)]_vars

\* writeLoop l arms its timer: at its start, in the timer case, in the reset case
Arms(l) == LoopStart(l) \/ LoopTimer(l) \/ LoopReset(l)

\* C17 as stated: for every cycle > 0, every clock >= 0 and every time of day, the
\* deadline writeLoop arms its timer with is at least cycle seconds after now.
C17_AtLeastCycle ==
    [][\A l \in LoopIds :
         (Arms(l) /\ cycle > 0 /\ clock >= 0) => rotTimer'[l] >= now + cycle]_vars

\* C17 amended: for every cycle > 0, every clock >= 0 and every time of day, the
\* deadline is clock seconds after the midnight of the calendar day of
\* now + cycle: it is later than now + cycle - 86400 + clock, and it is at least
\* cycle seconds after now exactly when clock is not before the time of day of
\* now + cycle.
C17_DayOfNextCycle ==
    [][\A l \in LoopIds :
         (Arms(l) /\ cycle > 0 /\ clock >= 0)
            => /\ rotTimer'[l] - clock = Midnight(now + cycle)
               /\ rotTimer'[l] > now + cycle - DaySeconds + clock
               /\ (rotTimer'[l] >= now + cycle) = (clock >= (now + cycle) % DaySeconds)]_vars

\* a timer armed at 10:00:00 with cycle = 1h and clock = 30m for 00:30:00 of the
\* same day, nine and a half hours back
C17_Witness ==
    /\ cycle = 3600
    /\ clock = 1800
    /\ now = 36000
    /\ lp[1].pc = "select"
    /\ rotTimer[1] = 1800

\* C18: for every cycle and every clock >= 0, the deadline writeLoop arms its
\* timer with is later than now, so that the timer case does not fire again
\* before time has moved on.
C18_DeadlineInFuture ==
    [][\A l \in LoopIds : (Arms(l) /\ clock >= 0) => rotTimer'[l] > now]_vars

\* C19: once Close has released the sink (fa.out.Close()), writeLoop makes no
\* further write or flush on it: neither the write and flush of the message case
\* (which run also, with an empty payload, in the iteration that finds the queue
\* closed) nor the writes of the closing drain.
C19_NoWriteAfterClose ==
    [][~out.open
          => \A l \in LoopIds :
                /\ ~(lp[l].pc = "lock" /\ lp'[l].pc = "flush")
                /\ ~(lp[l].pc = "flush" /\ lp'[l].pc # "flush")
                /\ ~(lp[l].pc = "drain" /\ lp'[l].pc = "exit" /\ messages # <<>>)]_vars

\* C20: in every reachable state where fa.loopRunning is true the reschedule
\* channel is open, so that no SetOption(cycle/clock/daily) sends on it after
\* Close has closed it.
C20_NoSendOnClosedReset ==
    /\ loopRunning => ~resetClosed
    /\ \A t \in Setters : pc[t] = "setSend" => ~resetClosed
====
